---------------------------- MODULE Spec2Model ----------------------------
(***************************************************************************)
(* Network Medic (src/src/App.jsx): the diagnostic engine of the           *)
(* NetworkMedic component.  The React state of the component is the state  *)
(* of the model; every event handler and every continuation of an async    *)
(* flow (the code after an `await`) is one action.  A flow reads the       *)
(* values its closure captured when it was started, so a flow record       *)
(* carries those captured values next to its position.                     *)
(*                                                                         *)
(* Optional (nullable) values are sets: {} is null, {v} is the value v.    *)
(***************************************************************************)
EXTENDS Integers, Sequences, FiniteSets, TLC

VARIABLES
  stage,                  \* useState("idle"): "idle" | "scanning" | "done"
  abPhase,                \* useState("none"): "none" | "baselineDone" | "afterDone"
  externalChecksEnabled,  \* useState(false)
  abModeEnabled,          \* useState(true)
  baseline,               \* useState(null): optional scan result
  after,                  \* useState(null): optional scan result
  online,                 \* navigator.onLine, mirrored by scanMeta.online
  flows,                  \* the async flows in flight (runScanFlow / runAfterFixFlow)
  rejected,               \* the handler that just returned early, or "none"
  timerRef                \* useRef(null): the progress interval, if one is set

vars == <<stage, abPhase, externalChecksEnabled, abModeEnabled, baseline,
          after, online, flows, rejected, timerRef>>

session == <<stage, abPhase, baseline, after, flows>>

---------------------------------------------------------------------------
(* Optional values *)

Null == {}

Some(v) == {v}

Get(o) == CHOOSE v \in o : TRUE

MinOf(S) == CHOOSE x \in S : \A y \in S : x <= y

MaxOf(S) == CHOOSE x \in S : \A y \in S : x >= y

RemoveAt(s, i) == [j \in 1..(Len(s) - 1) |-> IF j < i THEN s[j] ELSE s[j + 1]]

---------------------------------------------------------------------------
(* Program constants *)

ProbeTimeoutMs == 2500

CaptiveSlowMs == 1800

SevereMs == 900

ElevatedMs == 450

MissingLatencyMs == 9999

DeltaMs == 250

StalledBaselineMs == 600

(* Bound of the model: flows that may be in flight at once.  The guards of  *)
(* the code keep the number at one; the bound only closes the state space   *)
(* when a guard is removed.                                                 *)
MaxFlows == 2

---------------------------------------------------------------------------
(* ENDPOINTS and timedFetch *)

Primaries == {"google204", "cfTrace", "cfHome"}

ENDPOINTS == Primaries \cup {"gstatic204", "dohCloudflare"}

(* timedFetch, try branch: fetch resolved; with mode no-cors the response   *)
(* is opaque.                                                              *)
fetchResolved(ms) ==
  [ok |-> TRUE, status |-> 0, type |-> "opaque", opaque |-> TRUE,
   ms |-> ms, error |-> Null]

fetchThrew_noError(ms, name) ==
  [ok |-> FALSE, status |-> 0, type |-> "error", opaque |-> FALSE,
   ms |-> ms, error |-> Null]

(* timedFetch, catch branch: fetch threw (network error, or the abort of    *)
(* the timeout).                                                           *)
fetchThrew(ms, name) ==
  [ok |-> FALSE, status |-> 0, type |-> "error", opaque |-> FALSE,
   ms |-> ms, error |-> Some(name)]

(* A network condition gives the outcome of the probe of every endpoint.   *)
Net(g, t, h, c, d) ==
  [google204 |-> g, cfTrace |-> t, cfHome |-> h, gstatic204 |-> c,
   dohCloudflare |-> d]

timedFetch(net, url) == net[url]

---------------------------------------------------------------------------
(* runOneScan *)

HasNumericMs(x) == x.ms \in Int

scanDisabled_staleDns(label, onl) ==
  [label |-> label, online |-> onl,
   latency |-> [google204 |-> Null, cloudflare |-> Null, cfHome |-> Null,
                bestMs |-> Null, worstMs |-> Null, note |-> "disabled"],
   captive |-> [suspected |-> Null, note |-> "disabled"],
   dns |-> [ok |-> Some(TRUE), note |-> "disabled"],
   doh |-> Null]

(* Privacy mode: no probe, every verdict null. *)
scanDisabled(label, onl) ==
  [label |-> label, online |-> onl,
   latency |-> [google204 |-> Null, cloudflare |-> Null, cfHome |-> Null,
                bestMs |-> Null, worstMs |-> Null, note |-> "disabled"],
   captive |-> [suspected |-> Null, note |-> "disabled"],
   dns |-> [ok |-> Null, note |-> "disabled"],
   doh |-> Null]

latencyNote_strict(bestMs) ==
  IF bestMs > SevereMs THEN "very high"
  ELSE IF bestMs >= ElevatedMs THEN "elevated" ELSE "normal"

latencyNote(bestMs) ==
  IF bestMs >= SevereMs THEN "very high"
  ELSE IF bestMs >= ElevatedMs THEN "elevated" ELSE "normal"

captiveSuspected_noTransport(onl, captiveProbe, g204, cf) ==
  onl /\ (captiveProbe.ok = FALSE \/ captiveProbe.ms >= CaptiveSlowMs)

(* online && (captiveProbe.ok === false || captiveProbe.ms >= 1800) &&      *)
(* (g204.ok || cf.ok)                                                       *)
captiveSuspected(onl, captiveProbe, g204, cf) ==
  /\ onl
  /\ (captiveProbe.ok = FALSE \/ captiveProbe.ms >= CaptiveSlowMs)
  /\ (g204.ok \/ cf.ok)

(* Transport looks OK if ANY probe worked. *)
transportOk(g204, cfTrace, cfHome) == \E p \in {g204, cfTrace, cfHome} : p.ok

domainOk_withTrace(g204, cfTrace, cfHome) == g204.ok \/ cfTrace.ok \/ cfHome.ok

(* Domain reachability evidence (2 domains): g204?.ok || cfHome?.ok *)
domainOk(g204, cfTrace, cfHome) == g204.ok \/ cfHome.ok

dnsLikelyBroken(g204, cfTrace, cfHome) ==
  transportOk(g204, cfTrace, cfHome) /\ ~domainOk(g204, cfTrace, cfHome)

(* scanEnabled with a failed DoH probe counted as broken name resolution. *)
scanEnabled_dohDecides(label, onl, net) ==
  LET g204 == timedFetch(net, "google204")
      cfTrace == timedFetch(net, "cfTrace")
      cfHome == timedFetch(net, "cfHome")
      latencies == {x.ms : x \in {p \in {g204, cfTrace, cfHome} : HasNumericMs(p)}}
      bestMs == IF latencies # {} THEN Some(MinOf(latencies)) ELSE Null
      worstMs == IF latencies # {} THEN Some(MaxOf(latencies)) ELSE Null
      captiveProbe == timedFetch(net, "gstatic204")
      cf == cfTrace
      captive == captiveSuspected(onl, captiveProbe, g204, cf)
      broken == dnsLikelyBroken(g204, cfTrace, cfHome)
      doh == timedFetch(net, "dohCloudflare")
      dnsOk == ~broken /\ doh.ok
      dnsNote == IF broken THEN "broken"
                 ELSE IF doh.ok THEN "ok" ELSE "inconclusive"
  IN [label |-> label, online |-> onl,
      latency |-> [google204 |-> Some(g204), cloudflare |-> Some(cfTrace),
                   cfHome |-> Some(cfHome), bestMs |-> bestMs,
                   worstMs |-> worstMs,
                   note |-> IF bestMs = Null THEN "normal"
                            ELSE latencyNote(Get(bestMs))],
      captive |-> [suspected |-> Some(captive),
                   note |-> IF captive THEN "possible" ELSE "none"],
      dns |-> [ok |-> Some(dnsOk), note |-> dnsNote],
      doh |-> Some(doh)]

(* The three-probe variant of the scan.  Lines 728-729 redeclare bestMs     *)
(* and worstMs from the two-probe variant and are superseded by lines       *)
(* 721-726; `cf` in line 738 is that variant's name of the Cloudflare       *)
(* trace probe (cfTrace, stored as latency.cloudflare).                     *)
scanEnabled(label, onl, net) ==
  LET g204 == timedFetch(net, "google204")
      cfTrace == timedFetch(net, "cfTrace")
      cfHome == timedFetch(net, "cfHome")
      latencies == {x.ms : x \in {p \in {g204, cfTrace, cfHome} : HasNumericMs(p)}}
      bestMs == IF latencies # {} THEN Some(MinOf(latencies)) ELSE Null
      worstMs == IF latencies # {} THEN Some(MaxOf(latencies)) ELSE Null
      captiveProbe == timedFetch(net, "gstatic204")
      cf == cfTrace
      captive == captiveSuspected(onl, captiveProbe, g204, cf)
      broken == dnsLikelyBroken(g204, cfTrace, cfHome)
      doh == timedFetch(net, "dohCloudflare")
      dnsOk == ~broken
      dnsNote == IF broken THEN "broken"
                 ELSE IF doh.ok THEN "ok" ELSE "inconclusive"
  IN [label |-> label, online |-> onl,
      latency |-> [google204 |-> Some(g204), cloudflare |-> Some(cfTrace),
                   cfHome |-> Some(cfHome), bestMs |-> bestMs,
                   worstMs |-> worstMs,
                   note |-> IF bestMs = Null THEN "normal"
                            ELSE latencyNote(Get(bestMs))],
      captive |-> [suspected |-> Some(captive),
                   note |-> IF captive THEN "possible" ELSE "none"],
      dns |-> [ok |-> Some(dnsOk), note |-> dnsNote],
      doh |-> Some(doh)]

runOneScan(label, onl, ext, net) ==
  IF ~ext THEN scanDisabled(label, onl) ELSE scanEnabled(label, onl, net)

---------------------------------------------------------------------------
(* classifyHealth and the derived values of the component *)

classifyHealth_captiveFirst(onl, ext, latencyMs, dnsOk, captiveLikely) ==
  IF captiveLikely
    THEN [level |-> "amber", title |-> "Captive Portal Suspected"]
  ELSE IF ~onl THEN [level |-> "red", title |-> "No Connectivity"]
  ELSE IF ~ext THEN [level |-> "amber", title |-> "Limited Scan Mode"]
  ELSE IF latencyMs >= SevereMs
    THEN [level |-> "amber", title |-> "Stalled Connection"]
  ELSE IF ~dnsOk
    THEN [level |-> IF latencyMs >= SevereMs THEN "red" ELSE "amber",
          title |-> "DNS Issues"]
  ELSE [level |-> "green", title |-> "Healthy"]

classifyHealth_dnsFirst(onl, ext, latencyMs, dnsOk, captiveLikely) ==
  IF ~onl THEN [level |-> "red", title |-> "No Connectivity"]
  ELSE IF ~ext THEN [level |-> "amber", title |-> "Limited Scan Mode"]
  ELSE IF ~dnsOk THEN [level |-> "amber", title |-> "DNS Issues"]
  ELSE IF captiveLikely
    THEN [level |-> "amber", title |-> "Captive Portal Suspected"]
  ELSE IF latencyMs >= SevereMs
    THEN [level |-> "amber", title |-> "Stalled Connection"]
  ELSE [level |-> "green", title |-> "Healthy"]

classifyHealth_dnsBeforeLatency(onl, ext, latencyMs, dnsOk, captiveLikely) ==
  IF ~onl THEN [level |-> "red", title |-> "No Connectivity"]
  ELSE IF ~ext THEN [level |-> "amber", title |-> "Limited Scan Mode"]
  ELSE IF captiveLikely
    THEN [level |-> "amber", title |-> "Captive Portal Suspected"]
  ELSE IF ~dnsOk
    THEN [level |-> IF latencyMs >= SevereMs THEN "red" ELSE "amber",
          title |-> "DNS Issues"]
  ELSE IF latencyMs >= SevereMs
    THEN [level |-> "amber", title |-> "Stalled Connection"]
  ELSE [level |-> "green", title |-> "Healthy"]

classifyHealth(onl, ext, latencyMs, dnsOk, captiveLikely) ==
  IF ~onl THEN [level |-> "red", title |-> "No Connectivity"]
  ELSE IF ~ext THEN [level |-> "amber", title |-> "Limited Scan Mode"]
  ELSE IF captiveLikely
    THEN [level |-> "amber", title |-> "Captive Portal Suspected"]
  ELSE IF latencyMs >= SevereMs
    THEN [level |-> "amber", title |-> "Stalled Connection"]
  ELSE IF ~dnsOk
    THEN [level |-> IF latencyMs >= SevereMs THEN "red" ELSE "amber",
          title |-> "DNS Issues"]
  ELSE [level |-> "green", title |-> "Healthy"]

latestResult == IF after # Null THEN after ELSE baseline

health ==
  LET latencyMs == IF latestResult # Null /\ Get(latestResult).latency.bestMs # Null
                   THEN Get(Get(latestResult).latency.bestMs)
                   ELSE MissingLatencyMs
      dnsOk == IF latestResult # Null /\ Get(latestResult).dns.ok # Null
               THEN Get(Get(latestResult).dns.ok) ELSE TRUE
      captiveLikely ==
        IF latestResult # Null /\ Get(latestResult).captive.suspected # Null
        THEN Get(Get(latestResult).captive.suspected) ELSE FALSE
  IN classifyHealth(online, externalChecksEnabled, latencyMs, dnsOk, captiveLikely)

reliabilityScore_anyExtra(ext, networkHintSupported, longTaskSupported) ==
  LET extras == (IF networkHintSupported THEN 1 ELSE 0)
                + (IF longTaskSupported THEN 1 ELSE 0)
  IN IF ~ext THEN "low"
     ELSE IF extras >= 1 THEN "high"
     ELSE "medium"

reliabilityScore(ext, networkHintSupported, longTaskSupported) ==
  LET extras == (IF networkHintSupported THEN 1 ELSE 0)
                + (IF longTaskSupported THEN 1 ELSE 0)
  IN IF ~ext THEN "low"
     ELSE IF extras >= 2 THEN "high"
     ELSE IF extras = 1 THEN "medium"
     ELSE "medium"

(* scoreDiagnosis with the delta rules as spec section 4.7 words them. *)
scoreDiagnosis_deltaOnly(ext, b, a) ==
  LET latest == IF a # Null THEN a ELSE b
      r == Get(latest)
      latencyMs == IF r.latency.bestMs # Null THEN Get(r.latency.bestMs)
                   ELSE MissingLatencyMs
      both == /\ b # Null /\ a # Null
              /\ Get(b).latency.bestMs # Null /\ Get(a).latency.bestMs # Null
      delta == Get(Get(a).latency.bestMs) - Get(Get(b).latency.bestMs)
  IN IF ~ext THEN "Limited Scan"
     ELSE IF latest = Null THEN "Ready"
     ELSE IF r.captive.suspected = Some(TRUE) THEN "Captive Portal"
     ELSE IF r.dns.ok = Some(FALSE) THEN "DNS / APN Issue"
     ELSE IF both /\ delta <= -DeltaMs THEN "Stalled Radio Session"
     ELSE IF both /\ delta >= DeltaMs THEN "Congestion / Coverage"
     ELSE IF latencyMs >= SevereMs THEN "Radio Congestion"
     ELSE IF latencyMs >= ElevatedMs THEN "Degraded"
     ELSE "Healthy"

(* scoreDiagnosis with the bestMs >= 900 rule ahead of the delta rules. *)
scoreDiagnosis_severeFirst(ext, b, a) ==
  LET latest == IF a # Null THEN a ELSE b
      r == Get(latest)
      latencyMs == IF r.latency.bestMs # Null THEN Get(r.latency.bestMs)
                   ELSE MissingLatencyMs
      both == /\ b # Null /\ a # Null
              /\ Get(b).latency.bestMs # Null /\ Get(a).latency.bestMs # Null
      delta == Get(Get(a).latency.bestMs) - Get(Get(b).latency.bestMs)
      improved == delta <= -DeltaMs
      worsened == delta >= DeltaMs
  IN IF ~ext THEN "Limited Scan"
     ELSE IF latest = Null THEN "Ready"
     ELSE IF r.captive.suspected = Some(TRUE) THEN "Captive Portal"
     ELSE IF r.dns.ok = Some(FALSE) THEN "DNS / APN Issue"
     ELSE IF latencyMs >= SevereMs THEN "Radio Congestion"
     ELSE IF both /\ improved /\ Get(Get(b).latency.bestMs) >= StalledBaselineMs
       THEN "Stalled Radio Session"
     ELSE IF both /\ worsened /\ Get(Get(a).latency.bestMs) >= SevereMs
       THEN "Congestion / Coverage"
     ELSE IF latencyMs >= ElevatedMs THEN "Degraded"
     ELSE "Healthy"

(* scoreDiagnosis: the label of the suggestion (the bullets, which alone    *)
(* depend on longTaskMs, are left out).                                    *)
scoreDiagnosis(ext, b, a) ==
  LET latest == IF a # Null THEN a ELSE b
      r == Get(latest)
      latencyMs == IF r.latency.bestMs # Null THEN Get(r.latency.bestMs)
                   ELSE MissingLatencyMs
      both == /\ b # Null /\ a # Null
              /\ Get(b).latency.bestMs # Null /\ Get(a).latency.bestMs # Null
      delta == Get(Get(a).latency.bestMs) - Get(Get(b).latency.bestMs)
      improved == delta <= -DeltaMs
      worsened == delta >= DeltaMs
  IN IF ~ext THEN "Limited Scan"
     ELSE IF latest = Null THEN "Ready"
     ELSE IF r.captive.suspected = Some(TRUE) THEN "Captive Portal"
     ELSE IF r.dns.ok = Some(FALSE) THEN "DNS / APN Issue"
     ELSE IF both /\ improved /\ Get(Get(b).latency.bestMs) >= StalledBaselineMs
       THEN "Stalled Radio Session"
     ELSE IF both /\ worsened /\ Get(Get(a).latency.bestMs) >= SevereMs
       THEN "Congestion / Coverage"
     ELSE IF latencyMs >= SevereMs THEN "Radio Congestion"
     ELSE IF latencyMs >= ElevatedMs THEN "Degraded"
     ELSE "Healthy"

diagnosis == scoreDiagnosis(externalChecksEnabled, baseline, after)

deltas_reversed(b, a) ==
  IF b = Null \/ a = Null
  THEN [latencyDelta |-> Null, dnsChanged |-> Null, captiveChanged |-> Null]
  ELSE LET bl == Get(b)
           af == Get(a)
       IN [latencyDelta |->
             IF bl.latency.bestMs # Null /\ af.latency.bestMs # Null
             THEN Some(Get(bl.latency.bestMs) - Get(af.latency.bestMs))
             ELSE Null,
           dnsChanged |->
             IF bl.dns.ok # Null /\ af.dns.ok # Null
             THEN Some(af.dns.ok # bl.dns.ok) ELSE Null,
           captiveChanged |->
             IF bl.captive.suspected # Null /\ af.captive.suspected # Null
             THEN Some(af.captive.suspected # bl.captive.suspected) ELSE Null]

(* deltas (useMemo) of the optional results b (baseline) and a (after). *)
deltas(b, a) ==
  IF b = Null \/ a = Null
  THEN [latencyDelta |-> Null, dnsChanged |-> Null, captiveChanged |-> Null]
  ELSE LET bl == Get(b)
           af == Get(a)
       IN [latencyDelta |->
             IF bl.latency.bestMs # Null /\ af.latency.bestMs # Null
             THEN Some(Get(af.latency.bestMs) - Get(bl.latency.bestMs))
             ELSE Null,
           dnsChanged |->
             IF bl.dns.ok # Null /\ af.dns.ok # Null
             THEN Some(af.dns.ok # bl.dns.ok) ELSE Null,
           captiveChanged |->
             IF bl.captive.suspected # Null /\ af.captive.suspected # Null
             THEN Some(af.captive.suspected # bl.captive.suspected) ELSE Null]

showAfterButton_noPhase == abModeEnabled /\ externalChecksEnabled

showAfterButton ==
  abModeEnabled /\ externalChecksEnabled /\ abPhase = "baselineDone"

(* ScanSession.phase, read off the component state.  The code tests stage   *)
(* only against "scanning", so "idle" and "done" differ by what the session *)
(* holds: baseline-ready is abPhase "baselineDone", idle is a session       *)
(* without results, anything else at rest is complete.                      *)
Phase ==
  IF stage = "scanning"
  THEN (IF flows # <<>> /\ flows[1].kind = "After Reset"
        THEN "running-after" ELSE "running")
  ELSE IF abPhase = "baselineDone" THEN "baseline-ready"
  ELSE IF baseline = Null /\ after = Null THEN "idle"
  ELSE "complete"

---------------------------------------------------------------------------
(* The inputs of the model: network conditions *)

Fast == fetchResolved(120)

Slow == fetchResolved(1000)

TimedOut == fetchThrew(ProbeTimeoutMs, "AbortError")

Failed == fetchThrew(30, "TypeError")

(* The conditions the session model scans under: a healthy network, broken  *)
(* name resolution behind a slow transport, a captive portal, no network.   *)
SessionNets ==
  { Net(Fast, Fast, Fast, Fast, Fast),
    Net(TimedOut, Slow, TimedOut, Fast, TimedOut),
    Net(Fast, Fast, Fast, TimedOut, Fast),
    Net(Failed, Failed, Failed, Failed, Failed) }

PrimaryOutcomes ==
  {fetchResolved(ms) : ms \in {120, 450, 899, 900}} \cup {Failed, TimedOut}

CaptiveOutcomes ==
  {fetchResolved(ms) : ms \in {120, 1799, 1800}} \cup {TimedOut}

DohOutcomes == {Fast, TimedOut}

(* Every combination of probe outcomes, for the claims about one scan. *)
ScanNets ==
  { Net(g, t, h, c, d) : g \in PrimaryOutcomes, t \in PrimaryOutcomes,
                         h \in PrimaryOutcomes, c \in CaptiveOutcomes,
                         d \in DohOutcomes }

(* Conditions for the comparison of two scans: every probe completes in    *)
(* the same time, or name resolution is broken, or a portal intercepts.     *)
Uniform(ms) ==
  Net(fetchResolved(ms), fetchResolved(ms), fetchResolved(ms),
      fetchResolved(ms), fetchResolved(ms))

CompareNets ==
  {Uniform(ms) : ms \in {120, 400, 700, 1000, 1300}}
    \cup { Net(TimedOut, Slow, TimedOut, Fast, TimedOut),
           Net(Fast, Fast, Fast, TimedOut, Fast) }

---------------------------------------------------------------------------
(* Flows: one record per call of runScanFlow / runAfterFixFlow in flight *)

flowProbing_allAtOnce(kind, ext, ab, onl, net) ==
  [kind |-> kind, ext |-> ext, ab |-> ab, onl |-> Some(onl), net |-> Some(net),
   pending |-> ENDPOINTS, got |-> {}, pc |-> "probes"]

(* A flow awaiting its probes: the closure captured ext and ab, runOneScan   *)
(* read navigator.onLine, and the three primary probes are issued together.  *)
flowProbing(kind, ext, ab, onl, net) ==
  [kind |-> kind, ext |-> ext, ab |-> ab, onl |-> Some(onl), net |-> Some(net),
   pending |-> Primaries, got |-> {}, pc |-> "probes"]

(* A flow in the 5200 ms wait that follows the scan. *)
flowDelay(kind, ext, ab) ==
  [kind |-> kind, ext |-> ext, ab |-> ab, onl |-> Null, net |-> Null,
   pending |-> {}, got |-> {}, pc |-> "delay"]

---------------------------------------------------------------------------
(* Event handlers *)

(* Toggle "Enable External Diagnostics" *)
ToggleExternal ==
  /\ externalChecksEnabled' = ~externalChecksEnabled
  /\ abPhase' = "none"
  /\ baseline' = Null
  /\ after' = Null
  /\ rejected' = "none"
  /\ UNCHANGED <<stage, abModeEnabled, online, flows, timerRef>>

(* Toggle "A/B Scan Mode" *)
ToggleAb ==
  /\ abModeEnabled' = ~abModeEnabled
  /\ abPhase' = "none"
  /\ after' = Null
  /\ rejected' = "none"
  /\ UNCHANGED <<stage, externalChecksEnabled, baseline, online, flows,
                 timerRef>>

(* window "online" / "offline" event *)
OnlineEvent ==
  /\ online' = ~online
  /\ rejected' = "none"
  /\ UNCHANGED <<stage, abPhase, externalChecksEnabled, abModeEnabled,
                 baseline, after, flows, timerRef>>

runScanFlowGuard_never == FALSE

runScanFlowGuard_orBaselineReady ==
  stage = "scanning" \/ abPhase = "baselineDone"

(* if (stage === "scanning") return; *)
runScanFlowGuard == stage = "scanning"

(* "Run Scan": runScanFlow up to its first await that leaves the handler;   *)
(* it (re)starts the progress interval held in timerRef.                    *)
(* With probing disabled runOneScan returns at once and the flow runs on,   *)
(* in the same task, to the 5200 ms wait.                                  *)
runScanFlow(nets) ==
  IF runScanFlowGuard
  THEN /\ rejected' = "start"
       /\ UNCHANGED <<stage, abPhase, externalChecksEnabled, abModeEnabled,
                      baseline, after, online, flows, timerRef>>
  ELSE /\ Len(flows) < MaxFlows
       /\ stage' = "scanning"
       /\ timerRef' = Some("interval")
       /\ rejected' = "none"
       /\ IF ~externalChecksEnabled
          THEN /\ baseline' = Some(runOneScan("Baseline", online, FALSE, Null))
               /\ after' = Null
               /\ flows' = Append(flows, flowDelay("Baseline", FALSE, abModeEnabled))
          ELSE /\ \E net \in nets :
                    flows' = Append(flows,
                               flowProbing("Baseline", TRUE, abModeEnabled, online, net))
               /\ UNCHANGED <<baseline, after>>
       /\ UNCHANGED <<abPhase, externalChecksEnabled, abModeEnabled, online>>

runAfterFixFlowGuard_never == FALSE

(* if (stage === "scanning") return; *)
runAfterFixFlowGuard == stage = "scanning"

(* runAfterFixFlow up to its first await. *)
runAfterFixFlow(nets) ==
  IF runAfterFixFlowGuard \/ ~abModeEnabled \/ ~externalChecksEnabled
  THEN /\ rejected' = "startAfter"
       /\ UNCHANGED <<stage, abPhase, externalChecksEnabled, abModeEnabled,
                      baseline, after, online, flows, timerRef>>
  ELSE /\ Len(flows) < MaxFlows
       /\ stage' = "scanning"
       /\ timerRef' = Some("interval")
       /\ rejected' = "none"
       /\ \E net \in nets :
            flows' = Append(flows,
                       flowProbing("After Reset", TRUE, abModeEnabled, online, net))
       /\ UNCHANGED <<abPhase, externalChecksEnabled, abModeEnabled, baseline,
                      after, online>>

(* "Re-Scan After Reset": the button exists only while showAfterButton; an  *)
(* attempt without the button reaches no handler.                          *)
StartAfter(nets) ==
  IF showAfterButton
  THEN runAfterFixFlow(nets)
  ELSE /\ rejected' = "startAfter"
       /\ UNCHANGED <<stage, abPhase, externalChecksEnabled, abModeEnabled,
                      baseline, after, online, flows, timerRef>>

---------------------------------------------------------------------------
(* Continuations of a flow *)

nextProbes_reissueCaptive(got) ==
  IF ~(Primaries \subseteq got) THEN {}
  ELSE IF "gstatic204" \notin got THEN {"gstatic204"}
  ELSE IF "dohCloudflare" \notin got THEN {"dohCloudflare", "gstatic204"}
  ELSE {}

(* The probes issued when the awaited round `got` has resolved:             *)
(* Promise.all of the primaries, then the captive probe, then DoH.          *)
nextProbes(got) ==
  IF ~(Primaries \subseteq got) THEN {}
  ELSE IF "gstatic204" \notin got THEN {"gstatic204"}
  ELSE IF "dohCloudflare" \notin got THEN {"dohCloudflare"}
  ELSE {}

(* The state updates that follow `await runOneScan(...)`. *)
writeResult(f, result) ==
  IF f.kind = "Baseline"
  THEN baseline' = Some(result) /\ after' = Null
  ELSE after' = Some(result) /\ UNCHANGED baseline

(* The probe of endpoint e of flow i resolves (timedFetch returns). *)
ProbeResolve(i, e) ==
  LET f == flows[i]
      got == f.got \cup {e}
      left == f.pending \ {e}
  IN /\ f.pc = "probes"
     /\ e \in f.pending
     /\ rejected' = "none"
     /\ IF left # {}
        THEN /\ flows' = [flows EXCEPT ![i].got = got, ![i].pending = left]
             /\ UNCHANGED <<baseline, after>>
        ELSE IF nextProbes(got) # {}
        THEN /\ flows' = [flows EXCEPT ![i].got = got,
                                       ![i].pending = nextProbes(got)]
             /\ UNCHANGED <<baseline, after>>
        ELSE /\ writeResult(f, runOneScan(f.kind, Get(f.onl), f.ext, Get(f.net)))
             /\ flows' = [flows EXCEPT ![i] = flowDelay(f.kind, f.ext, f.ab)]
     /\ UNCHANGED <<stage, abPhase, externalChecksEnabled, abModeEnabled, online,
                    timerRef>>

DelayElapsed_noFinally(i) ==
  LET f == flows[i]
  IN /\ f.pc = "delay"
     /\ abPhase' = IF f.kind = "Baseline"
                   THEN (IF f.ab /\ f.ext THEN "baselineDone" ELSE "none")
                   ELSE "afterDone"
     /\ stage' = "done"
     /\ flows' = RemoveAt(flows, i)
     /\ rejected' = "none"
     /\ UNCHANGED <<externalChecksEnabled, abModeEnabled, baseline, after, online,
                    timerRef>>

(* The 5200 ms wait of flow i ends: the flow finishes, and its `finally`   *)
(* clears the progress interval.                                           *)
DelayElapsed(i) ==
  LET f == flows[i]
  IN /\ f.pc = "delay"
     /\ abPhase' = IF f.kind = "Baseline"
                   THEN (IF f.ab /\ f.ext THEN "baselineDone" ELSE "none")
                   ELSE "afterDone"
     /\ stage' = "done"
     /\ flows' = RemoveAt(flows, i)
     /\ timerRef' = Null
     /\ rejected' = "none"
     /\ UNCHANGED <<externalChecksEnabled, abModeEnabled, baseline, after, online>>

---------------------------------------------------------------------------
(* Specifications *)

Init ==
  /\ stage = "idle"
  /\ abPhase = "none"
  /\ externalChecksEnabled = FALSE
  /\ abModeEnabled = TRUE
  /\ baseline = Null
  /\ after = Null
  /\ online \in BOOLEAN
  /\ flows = <<>>
  /\ rejected = "none"
  /\ timerRef = Null

Next ==
  \/ ToggleExternal
  \/ ToggleAb
  \/ OnlineEvent
  \/ runScanFlow(SessionNets)
  \/ StartAfter(SessionNets)
  \/ \E i \in DOMAIN flows : \E e \in ENDPOINTS : ProbeResolve(i, e)
  \/ \E i \in DOMAIN flows : DelayElapsed(i)

Spec == Init /\ [][Next]_vars

(* The session with the scheduling the runtime guarantees: a probe in       *)
(* flight resolves (fetch settles, or the 2500 ms timer aborts it), and the *)
(* 5200 ms timer of a flow fires.                                           *)
SpecLive ==
  /\ Spec
  /\ WF_vars(\E i \in DOMAIN flows : \E e \in ENDPOINTS : ProbeResolve(i, e))
  /\ WF_vars(\E i \in DOMAIN flows : DelayElapsed(i))

(* One baseline scan under every network condition: the state right after  *)
(* "Run Scan" was accepted, with external diagnostics on (the primary       *)
(* probes in flight) or off (runOneScan returned at once).                  *)
InitScan ==
  /\ stage = "scanning"
  /\ abPhase = "none"
  /\ externalChecksEnabled \in BOOLEAN
  /\ abModeEnabled = TRUE
  /\ after = Null
  /\ online \in BOOLEAN
  /\ IF externalChecksEnabled
     THEN /\ baseline = Null
          /\ \E net \in ScanNets :
               flows = <<flowProbing("Baseline", TRUE, TRUE, online, net)>>
     ELSE /\ baseline = Some(runOneScan("Baseline", online, FALSE, Null))
          /\ flows = <<flowDelay("Baseline", FALSE, TRUE)>>
  /\ rejected = "none"
  /\ timerRef = Some("interval")

NextScan ==
  \/ \E i \in DOMAIN flows : \E e \in ENDPOINTS : ProbeResolve(i, e)
  \/ \E i \in DOMAIN flows : DelayElapsed(i)

SpecScan == InitScan /\ [][NextScan]_vars

(* The second phase of an A/B scan under every pair of conditions: the      *)
(* state right after "Re-Scan After Reset" was accepted in baseline-ready.  *)
InitCompare ==
  /\ stage = "scanning"
  /\ abPhase = "baselineDone"
  /\ externalChecksEnabled = TRUE
  /\ abModeEnabled = TRUE
  /\ online \in BOOLEAN
  /\ \E net \in CompareNets :
       baseline = Some(runOneScan("Baseline", online, TRUE, net))
  /\ after = Null
  /\ \E net \in CompareNets :
       flows = <<flowProbing("After Reset", TRUE, TRUE, online, net)>>
  /\ rejected = "none"
  /\ timerRef = Some("interval")

SpecCompare == InitCompare /\ [][NextScan]_vars

---------------------------------------------------------------------------
(* Claims about the session (checked under Spec) *)

(* The step is an accepted "Run Scan": a baseline flow was added. *)
StartAccepted ==
  /\ stage' = "scanning"
  /\ Len(flows') = Len(flows) + 1
  /\ flows'[Len(flows')].kind = "Baseline"

(* The step finishes a baseline flow (its 5200 ms wait ended). *)
BaselineFinishes ==
  \E i \in DOMAIN flows : flows[i].kind = "Baseline" /\ DelayElapsed(i)

(* A result produced by probes (not by a privacy-mode scan). *)
Probed(r) == r.latency.google204 # Null

(* C1: in every reachable state at most one scan (baseline or after-reset)  *)
(* has started and not yet finished.                                        *)
C1_AtMostOneScanInFlight == Len(flows) <= 1

(* C1 witness: an after-reset scan is in flight, its probes pending, and a  *)
(* "Run Scan" was just turned away.                                         *)
C1_Witness ==
  /\ Len(flows) = 1
  /\ flows[1].kind = "After Reset"
  /\ flows[1].pending # {}
  /\ rejected = "start"

(* C2: with probing disabled the session never holds a result produced by   *)
(* probes (the result of a scan running when probing was disabled is        *)
(* discarded).                                                              *)
C2_DisabledHoldsNoProbedResult ==
  ~externalChecksEnabled => \A r \in baseline \cup after : ~Probed(r)

(* C3: whenever after is set, baseline is set and A/B mode is enabled. *)
C3_AfterNeedsBaselineAndAb ==
  after # Null => (baseline # Null /\ abModeEnabled)

(* C4: "Run Scan" while a scan is running changes neither the phase, nor    *)
(* baseline, nor after, nor the scan in flight, and issues no probe.        *)
C4_StartWhileRunningIsNoop ==
  [][(runScanFlow(SessionNets) /\ stage = "scanning") => UNCHANGED session]_vars

(* C4 witness: a baseline scan is running with probes pending and a         *)
(* "Run Scan" was just turned away.                                         *)
C4_Witness ==
  /\ rejected = "start"
  /\ Phase = "running"
  /\ Len(flows) = 1
  /\ flows[1].pending # {}

(* C5: an after-reset scan requested in any phase but baseline-ready is     *)
(* turned away: no probe is issued and phase, baseline and after stay.      *)
C5_StartAfterOnlyFromBaselineReady ==
  [][(StartAfter(SessionNets) /\ Phase # "baseline-ready")
       => UNCHANGED session]_vars

(* C5 witness: an after-reset scan was just turned away in phase complete,  *)
(* with both modes on and both results present.                             *)
C5_Witness ==
  /\ rejected = "startAfter"
  /\ Phase = "complete"
  /\ abModeEnabled /\ externalChecksEnabled
  /\ baseline # Null /\ after # Null

(* C6: switching probing off leaves the session, whatever its phase, in     *)
(* phase idle with baseline and after null.                                 *)
C6_ProbingOffResetsToIdle ==
  [][(externalChecksEnabled /\ ~externalChecksEnabled')
       => (Phase' = "idle" /\ baseline' = Null /\ after' = Null)]_vars

(* C7: when a baseline scan finishes the session is baseline-ready exactly  *)
(* if A/B mode and probing are both on at that moment, and complete         *)
(* otherwise.                                                               *)
C7_BaselineReadyIffBothOnAtFinish ==
  [][BaselineFinishes =>
       IF abModeEnabled /\ externalChecksEnabled
       THEN Phase' = "baseline-ready" ELSE Phase' = "complete"]_vars

(* C8 as stated: "Run Scan" in phase baseline-ready starts no scan and      *)
(* leaves the session unchanged.                                            *)
C8_StartInBaselineReadyIsNoop ==
  [][(runScanFlow(SessionNets) /\ Phase = "baseline-ready")
       => UNCHANGED session]_vars

(* C8 amended: "Run Scan" begins a baseline scan exactly when no scan is    *)
(* running, that is in phase idle, baseline-ready or complete; in           *)
(* baseline-ready too it starts a baseline scan.                            *)
C8_StartWheneverNotRunning ==
  [][runScanFlow(SessionNets) =>
       (StartAccepted <=> Phase \in {"idle", "baseline-ready", "complete"})]_vars

(* C8 witness: a baseline scan running that was started in baseline-ready   *)
(* (abPhase is set to "baselineDone" only as a scan finishes).              *)
C8_Witness ==
  /\ stage = "scanning"
  /\ abPhase = "baselineDone"
  /\ Len(flows) = 1
  /\ flows[1].kind = "Baseline"

---------------------------------------------------------------------------
(* Claims about one scan and its diagnosis (checked under SpecScan) *)

(* The elapsed times of the completed primary probes of result r. *)
CompletedMs(r) ==
  {p.ms : p \in {q \in r.latency.google204 \cup r.latency.cloudflare
                          \cup r.latency.cfHome : q.ok}}

(* C9: online, probing on, no captive portal suspected, dns.ok false and    *)
(* bestMs >= 900 give the amber DNS diagnosis, not the stall diagnosis.     *)
C9_DnsRulePrecedesLatencyRule ==
  \A r \in latestResult :
    ( /\ online /\ externalChecksEnabled
      /\ r.captive.suspected # Some(TRUE)
      /\ r.dns.ok = Some(FALSE)
      /\ r.latency.bestMs # Null
      /\ Get(r.latency.bestMs) >= SevereMs )
    => (health.title = "DNS Issues" /\ health.level = "amber")

(* C10: bestMs and worstMs of an enabled scan are the least and the         *)
(* greatest elapsed time over the completed primary probes only, and null   *)
(* when no primary probe completed.                                         *)
C10_LatencyOverCompletedProbesOnly ==
  \A r \in baseline \cup after :
    Probed(r) =>
      IF CompletedMs(r) = {}
      THEN r.latency.bestMs = Null /\ r.latency.worstMs = Null
      ELSE /\ r.latency.bestMs = Some(MinOf(CompletedMs(r)))
           /\ r.latency.worstMs = Some(MaxOf(CompletedMs(r)))

(* The step in which the scan of flow i returns (its last probe resolved). *)
ScanReturns(i) ==
  /\ flows[i].pc = "probes"
  /\ i \in DOMAIN flows'
  /\ flows'[i].pc = "delay"

NoProbeCompleted(net) == \A e \in ENDPOINTS : ~net[e].ok

(* C11: a scan in which no probe completed never leads to a green           *)
(* diagnosis of its result.                                                 *)
C11_ZeroCompletedNeverGreen ==
  [][\A i \in DOMAIN flows :
       (ScanReturns(i) /\ NoProbeCompleted(Get(flows[i].net)))
         => health'.level # "green"]_vars

(* The flows whose captive probe has resolved: the scan has computed its    *)
(* captive verdict.                                                         *)
CaptiveDecided ==
  {i \in DOMAIN flows : flows[i].pc = "probes" /\ "gstatic204" \in flows[i].got}

CaptiveVerdictOf(f) ==
  scanEnabled(f.kind, Get(f.onl), Get(f.net)).captive.suspected

AnyPrimaryCompleted(net) == \E e \in Primaries : net[e].ok

CaptiveAnomaly(net) ==
  ~net["gstatic204"].ok \/ net["gstatic204"].ms >= CaptiveSlowMs

(* C12: the captive verdict of an enabled scan is deviceOnline AND          *)
(* transportOk AND (captive probe failed OR took >= 1800 ms), transportOk   *)
(* being the completion of any of the three primary probes.                 *)
C12_CaptiveVerdictFormula ==
  \A i \in CaptiveDecided :
    LET f == flows[i]
        net == Get(f.net)
    IN CaptiveVerdictOf(f) =
         Some(Get(f.onl) /\ AnyPrimaryCompleted(net) /\ CaptiveAnomaly(net))

(* C13: with the device offline or no primary probe completed the captive   *)
(* verdict is false, whatever the captive probe did.                        *)
C13_CaptiveNeedsOnlineAndTransport ==
  /\ \A i \in CaptiveDecided :
       (~Get(flows[i].onl) \/ ~AnyPrimaryCompleted(Get(flows[i].net)))
         => CaptiveVerdictOf(flows[i]) = Some(FALSE)
  /\ \A r \in baseline \cup after :
       (Probed(r) /\ (~r.online \/ CompletedMs(r) = {}))
         => r.captive.suspected = Some(FALSE)

(* C13 witness: online, no primary probe completed, the captive probe       *)
(* timed out, and the verdict is false.                                     *)
C13_Witness ==
  \E i \in CaptiveDecided :
    /\ Get(flows[i].onl)
    /\ ~AnyPrimaryCompleted(Get(flows[i].net))
    /\ Get(flows[i].net)["gstatic204"] = TimedOut
    /\ CaptiveVerdictOf(flows[i]) = Some(FALSE)

(* The primary probes stored in result r. *)
StoredTransportOk(r) ==
  \E p \in r.latency.google204 \cup r.latency.cloudflare \cup r.latency.cfHome : p.ok

StoredDomainOk(r) ==
  \E p \in r.latency.google204 \cup r.latency.cfHome : p.ok

(* C14: dns.ok = NOT (transportOk AND NOT domainOk) for every enabled       *)
(* scan, and dns.ok is null exactly for the scans run with probing off.     *)
C14_DnsVerdictFormula ==
  \A r \in baseline \cup after :
    IF Probed(r)
    THEN r.dns.ok = Some(~(StoredTransportOk(r) /\ ~StoredDomainOk(r)))
    ELSE r.dns.ok = Null

(* C14 witness: only the trace probe completed and dns.ok is false. *)
C14_Witness ==
  \E r \in baseline :
    /\ Probed(r)
    /\ StoredTransportOk(r) /\ ~StoredDomainOk(r)
    /\ r.dns.ok = Some(FALSE)

(* C15: online and probing on, a result with captive.suspected true and     *)
(* dns.ok false is diagnosed Captive Portal Suspected, whatever the         *)
(* latency.                                                                 *)
C15_CaptiveRulePrecedesDnsRule ==
  \A r \in latestResult :
    ( /\ online /\ externalChecksEnabled
      /\ r.captive.suspected = Some(TRUE)
      /\ r.dns.ok = Some(FALSE) )
    => health.title = "Captive Portal Suspected"

(* C15 witness: such a result is the latest one, with bestMs >= 900. *)
C15_Witness ==
  \E r \in latestResult :
    /\ online /\ externalChecksEnabled
    /\ r.captive.suspected = Some(TRUE)
    /\ r.dns.ok = Some(FALSE)
    /\ Get(r.latency.bestMs) >= SevereMs
    /\ health.title = "Captive Portal Suspected"

(* C16: offline always gives red No Connectivity, online with probing off  *)
(* always amber Limited Scan Mode, whatever captive, dns and latency the    *)
(* latest result holds.                                                     *)
C16_FirstTwoRulesIgnoreVerdicts ==
  /\ ~online => health = [level |-> "red", title |-> "No Connectivity"]
  /\ (online /\ ~externalChecksEnabled)
       => health = [level |-> "amber", title |-> "Limited Scan Mode"]
  /\ \A ms \in {120, SevereMs, MissingLatencyMs}, dnsOk \in BOOLEAN,
        captiveLikely \in BOOLEAN :
       /\ \A ext \in BOOLEAN :
            classifyHealth(FALSE, ext, ms, dnsOk, captiveLikely)
              = [level |-> "red", title |-> "No Connectivity"]
       /\ classifyHealth(TRUE, FALSE, ms, dnsOk, captiveLikely)
            = [level |-> "amber", title |-> "Limited Scan Mode"]

(* C16 witness: the device went offline while the latest result suspects a  *)
(* captive portal, and the diagnosis is No Connectivity.                    *)
C16_Witness ==
  /\ ~online
  /\ \E r \in latestResult : r.captive.suspected = Some(TRUE)
  /\ health.title = "No Connectivity"

(* Every verdict of result r is null. *)
AllNull(r) ==
  /\ r.latency.bestMs = Null /\ r.latency.worstMs = Null
  /\ r.dns.ok = Null
  /\ r.captive.suspected = Null

(* C17: a scan started with probing off issues no probe and its result has  *)
(* null bestMs, worstMs, dns.ok and captive.suspected; with the device      *)
(* online its diagnosis is Limited Scan Mode (amber), its confidence low.   *)
C17_DisabledScanIsEmpty ==
  /\ \A i \in DOMAIN flows :
       ~flows[i].ext =>
         /\ flows[i].pending = {} /\ flows[i].got = {}
         /\ baseline # Null => AllNull(Get(baseline))
  /\ \A r \in baseline \cup after :
       ~Probed(r) =>
         /\ AllNull(r)
         /\ ~externalChecksEnabled
         /\ online => health = [level |-> "amber", title |-> "Limited Scan Mode"]
         /\ \A hint \in BOOLEAN, longTask \in BOOLEAN :
              reliabilityScore(externalChecksEnabled, hint, longTask) = "low"

(* C17 witness: a finished privacy-mode scan with the device online. *)
C17_Witness ==
  /\ stage = "done"
  /\ online
  /\ \E r \in baseline : ~Probed(r) /\ AllNull(r)
  /\ health.title = "Limited Scan Mode"

(* C18: in a scan the three primary probes are issued together, the         *)
(* captive and the DoH probe only after all three primaries resolved, and   *)
(* the scan returns its verdicts only when every probe has resolved.        *)
C18_ProbePlanOrder ==
  /\ [](\A i \in DOMAIN flows :
          flows[i].pc = "probes" =>
            /\ Primaries \subseteq (flows[i].pending \cup flows[i].got)
            /\ ((flows[i].pending \cup flows[i].got) \ Primaries # {}
                  => Primaries \subseteq flows[i].got))
  /\ [][\A i \in DOMAIN flows :
          ScanReturns(i) =>
            \E e \in flows[i].pending : flows[i].got \cup {e} = ENDPOINTS]_vars

(* C18 witness: the captive probe in flight, the three primaries resolved. *)
C18_Witness ==
  \E i \in DOMAIN flows :
    flows[i].pending = {"gstatic204"} /\ flows[i].got = Primaries

(* A probe outcome as the contract has it. *)
WellFormedOutcome(p) ==
  /\ p.ms \in Nat
  /\ p.ok \in BOOLEAN
  /\ (p.error # Null) <=> ~p.ok
  /\ (p.type = "error") <=> ~p.ok
  /\ p.opaque => p.ok

(* The outcomes the probes of the flows have returned so far. *)
ReturnedOutcomes ==
  {Get(flows[i].net)[e] : i \in {j \in DOMAIN flows : flows[j].pc = "probes"},
                          e \in ENDPOINTS}

(* C19: every probe returns one outcome carrying its elapsed time, with an  *)
(* error kind exactly when it did not complete, and an opaque response      *)
(* counts as completed; no probe is both in flight and resolved.            *)
C19_ProbeOutcomeContract ==
  /\ \A p \in ReturnedOutcomes : WellFormedOutcome(p)
  /\ \A r \in baseline \cup after :
       \A p \in r.latency.google204 \cup r.latency.cloudflare
                  \cup r.latency.cfHome \cup r.doh : WellFormedOutcome(p)
  /\ \A i \in DOMAIN flows : flows[i].pending \cap flows[i].got = {}

(* C19 witness: a result holding an opaque completed probe and a probe      *)
(* aborted at the timeout.                                                  *)
C19_Witness ==
  \E r \in baseline :
    /\ \E p \in r.latency.google204 : p.ok /\ p.opaque /\ p.error = Null
    /\ \E p \in r.doh :
         ~p.ok /\ p.ms = ProbeTimeoutMs /\ p.error = Some("AbortError")

---------------------------------------------------------------------------
(* Claims about the comparison of two scans (checked under SpecCompare) *)

(* Both phases exist with a best latency, and the latest result has neither *)
(* a captive nor a DNS fault.                                               *)
Comparable(b, a) ==
  /\ externalChecksEnabled
  /\ b.latency.bestMs # Null /\ a.latency.bestMs # Null
  /\ a.captive.suspected # Some(TRUE)
  /\ a.dns.ok # Some(FALSE)

Best(r) == Get(r.latency.bestMs)

SevereNoFault(r) ==
  /\ externalChecksEnabled
  /\ r.captive.suspected # Some(TRUE)
  /\ r.dns.ok # Some(FALSE)
  /\ r.latency.bestMs # Null
  /\ Best(r) >= SevereMs

(* C21 as stated: whenever the latest bestMs >= 900 with no captive or DNS  *)
(* fault, the radio-reset guidance is selected whatever the delta.          *)
C21_SevereRulePrecedesDeltaRules ==
  \A r \in latestResult :
    SevereNoFault(r) => diagnosis = "Radio Congestion"

(* C21 amended: the delta rules are evaluated before the bestMs >= 900      *)
(* rule.  With the latest bestMs >= 900 and no captive or DNS fault the     *)
(* stalled-session message is selected when latencyDelta <= -250 and        *)
(* baseline.bestMs >= 600, the congestion/coverage message when             *)
(* latencyDelta >= +250, and the radio-reset guidance otherwise (also when  *)
(* baseline or after is missing).                                           *)
C21_DeltaRulesPrecedeSevereRule ==
  \A r \in latestResult :
    SevereNoFault(r) =>
      IF baseline = Null \/ after = Null
      THEN diagnosis = "Radio Congestion"
      ELSE IF Get(baseline).latency.bestMs = Null
      THEN diagnosis = "Radio Congestion"
      ELSE LET b == Get(baseline)
           IN IF Best(r) - Best(b) <= -DeltaMs /\ Best(b) >= StalledBaselineMs
              THEN diagnosis = "Stalled Radio Session"
              ELSE IF Best(r) - Best(b) >= DeltaMs
              THEN diagnosis = "Congestion / Coverage"
              ELSE diagnosis = "Radio Congestion"

(* C21 witness: baseline 1300 ms, after 1000 ms: the latest bestMs is       *)
(* >= 900 and the stalled-session message is selected.                      *)
C21_Witness ==
  \E b \in baseline, a \in after :
    /\ SevereNoFault(a)
    /\ Best(b) = 1300 /\ Best(a) = 1000
    /\ diagnosis = "Stalled Radio Session"

---------------------------------------------------------------------------
(* Claims about the session, continued (checked under Spec) *)

(* C22: from the moment "Run Scan" is accepted, while the baseline scan     *)
(* runs and when it completes, after is null and the diagnosis is derived   *)
(* from no after-reset result of the previous cycle.                        *)
C22_StartClearsAfter ==
  /\ Phase = "running" => (after = Null /\ latestResult \subseteq baseline)
  /\ (stage = "done" /\ abPhase # "afterDone" /\ flows = <<>>) => after = Null

---------------------------------------------------------------------------
(* Claims about the comparison, continued (checked under SpecCompare) *)

NoDeltas == [latencyDelta |-> Null, dnsChanged |-> Null, captiveChanged |-> Null]

(* d is the comparison of the results b and a as section 4.7 defines it. *)
DeltasAsSpecified(b, a, d) ==
  /\ d.latencyDelta =
       IF b.latency.bestMs = Null \/ a.latency.bestMs = Null THEN Null
       ELSE Some(Best(a) - Best(b))
  /\ d.dnsChanged =
       IF b.dns.ok = Null \/ a.dns.ok = Null THEN Null
       ELSE Some(Get(a.dns.ok) # Get(b.dns.ok))
  /\ d.captiveChanged =
       IF b.captive.suspected = Null \/ a.captive.suspected = Null THEN Null
       ELSE Some(Get(a.captive.suspected) # Get(b.captive.suspected))

(* Results of scans with and without probes, to compare pairwise. *)
DeltaInputs ==
  {scanDisabled("Baseline", TRUE)}
    \cup {scanEnabled("Baseline", TRUE, net) : net \in CompareNets}

(* C23: with baseline or after missing all three deltas are null;           *)
(* otherwise latencyDelta = after.bestMs - baseline.bestMs, dnsChanged =    *)
(* (after.dns.ok # baseline.dns.ok), captiveChanged likewise, each null     *)
(* when either side is null.                                                *)
C23_ComparisonDeltas ==
  /\ (baseline = Null \/ after = Null) => deltas(baseline, after) = NoDeltas
  /\ \A b \in baseline, a \in after :
       DeltasAsSpecified(b, a, deltas(baseline, after))
  /\ \A b \in DeltaInputs, a \in DeltaInputs :
       /\ DeltasAsSpecified(b, a, deltas(Some(b), Some(a)))
       /\ deltas(Null, Some(a)) = NoDeltas
       /\ deltas(Some(b), Null) = NoDeltas

(* C23 witness: baseline with broken name resolution at 1000 ms, after      *)
(* healthy at 700 ms: latencyDelta -300, dnsChanged true.                   *)
C23_Witness ==
  /\ baseline # Null /\ after # Null
  /\ deltas(baseline, after).latencyDelta = Some(-300)
  /\ deltas(baseline, after).dnsChanged = Some(TRUE)
  /\ deltas(baseline, after).captiveChanged = Some(FALSE)

---------------------------------------------------------------------------
(* Claims about one scan, continued (checked under SpecScan) *)

(* The latency tier of section 4.2, by the note the scan attaches. *)
TierOf(ms) ==
  IF ms < 450 THEN "normal" ELSE IF ms < 900 THEN "elevated" ELSE "very high"

TierRank(t) == IF t = "normal" THEN 0 ELSE IF t = "elevated" THEN 1 ELSE 2

TierSamples == {0, 30, 120, 420, 449, 450, 451, 899, 900, 901, 2500, 9999}

(* C24: the latency tier is a monotonic function of bestMs alone, normal    *)
(* below 450, elevated from 450 to 899, severe from 900 (420 normal, 450    *)
(* elevated, 899 elevated, 900 severe), and the congestion rule of the      *)
(* health classifier fires from the same 900.                               *)
C24_TierThresholds ==
  /\ \A r \in baseline \cup after :
       (Probed(r) /\ r.latency.bestMs # Null) =>
         /\ r.latency.note = TierOf(Best(r))
         /\ health.title = "Stalled Connection" => r.latency.note = "very high"
         /\ ( /\ online /\ externalChecksEnabled
              /\ r.captive.suspected = Some(FALSE) /\ r.dns.ok = Some(TRUE) )
            => (health.title = "Stalled Connection" <=> r.latency.note = "very high")
  /\ \A x \in TierSamples, y \in TierSamples :
       /\ latencyNote(x) = TierOf(x)
       /\ x <= y => TierRank(latencyNote(x)) <= TierRank(latencyNote(y))
  /\ latencyNote(420) = "normal" /\ latencyNote(450) = "elevated"
  /\ latencyNote(899) = "elevated" /\ latencyNote(900) = "very high"

(* C24 witness: a scan whose best latency is exactly 900 ms: tier severe    *)
(* and the diagnosis Stalled Connection.                                    *)
C24_Witness ==
  \E r \in baseline :
    /\ online /\ Probed(r)
    /\ r.latency.bestMs = Some(900)
    /\ r.latency.note = "very high"
    /\ r.dns.ok = Some(TRUE)
    /\ health.title = "Stalled Connection"

---------------------------------------------------------------------------
(* Claims about the confidence score (checked under Spec) *)

(* C25: with probing off the confidence is low whatever optional signal     *)
(* sources exist; with probing on it is high exactly when both the network  *)
(* hint and the long-task signal are available, and medium otherwise.       *)
C25_ConfidenceScore ==
  \A hint \in BOOLEAN, longTask \in BOOLEAN :
    /\ reliabilityScore(externalChecksEnabled, hint, longTask) =
         IF ~externalChecksEnabled THEN "low"
         ELSE IF hint /\ longTask THEN "high" ELSE "medium"
    /\ reliabilityScore(FALSE, hint, longTask) = "low"
    /\ reliabilityScore(TRUE, hint, longTask) = "high" <=> (hint /\ longTask)
    /\ reliabilityScore(TRUE, hint, longTask) \in {"high", "medium"}

(* C25 witness: a probed result is held with probing on; one signal source  *)
(* gives medium, both give high.                                            *)
C25_Witness ==
  /\ externalChecksEnabled
  /\ \E r \in baseline : Probed(r)
  /\ reliabilityScore(externalChecksEnabled, TRUE, FALSE) = "medium"
  /\ reliabilityScore(externalChecksEnabled, TRUE, TRUE) = "high"

---------------------------------------------------------------------------
(* Claims about the after-reset scan (checked under Spec) *)

(* The step is an accepted "Re-Scan After Reset": an after flow was added. *)
StartAfterAccepted ==
  /\ stage' = "scanning"
  /\ Len(flows') = Len(flows) + 1
  /\ flows'[Len(flows')].kind = "After Reset"

(* The step is a continuation of an after-reset flow. *)
AfterFlowStep ==
  \E i \in DOMAIN flows :
    /\ flows[i].kind = "After Reset"
    /\ (DelayElapsed(i) \/ \E e \in ENDPOINTS : ProbeResolve(i, e))

(* The step finishes an after-reset flow (its 5200 ms wait ended). *)
AfterFinishes ==
  \E i \in DOMAIN flows : flows[i].kind = "After Reset" /\ DelayElapsed(i)

(* C26: an accepted after-reset scan leaves baseline unchanged from its     *)
(* acceptance to its completion, ends with after set to its result and the  *)
(* phase complete, and a further after-reset scan starts only after a new   *)
(* baseline scan has completed (abPhase is "baselineDone" again).           *)
C26_StartAfterFrameAndEffect ==
  /\ [][(StartAfterAccepted \/ AfterFlowStep) => UNCHANGED baseline]_vars
  /\ [][AfterFinishes =>
          /\ after' # Null
          /\ Get(after').label = "After Reset"
          /\ Phase' = "complete"]_vars
  /\ [][StartAfterAccepted => abPhase = "baselineDone"]_vars
  /\ [][(abPhase # "baselineDone" /\ abPhase' = "baselineDone")
          => BaselineFinishes]_vars

---------------------------------------------------------------------------
(* Claims about the probes of one scan (checked under SpecScan) *)

(* Flow i is awaiting probes before and after the step. *)
StillProbing(i) ==
  /\ flows[i].pc = "probes"
  /\ i \in DOMAIN flows'
  /\ flows'[i].pc = "probes"

(* Result r stores the outcomes of network condition net as they came. *)
StoresOutcomes(r, net) ==
  /\ r.latency.google204 = Some(net["google204"])
  /\ r.latency.cloudflare = Some(net["cfTrace"])
  /\ r.latency.cfHome = Some(net["cfHome"])
  /\ r.doh = Some(net["dohCloudflare"])

(* C27: in an enabled scan every one of the five endpoints is probed        *)
(* exactly once, whether its probe completes, fails or times out (a         *)
(* resolved endpoint is never issued again and the scan returns when all    *)
(* five have resolved), and the outcomes, failures included, reach the      *)
(* result as they came.                                                     *)
C27_NoRetry ==
  /\ [](\A i \in DOMAIN flows :
          flows[i].pc = "probes" => flows[i].pending \cap flows[i].got = {})
  /\ [][\A i \in DOMAIN flows :
          StillProbing(i) =>
            /\ flows[i].got \subseteq flows'[i].got
            /\ Cardinality(flows'[i].got) <= Cardinality(flows[i].got) + 1
            /\ (flows'[i].pending \ flows[i].pending)
                 \cap (flows[i].pending \cup flows[i].got) = {}]_vars
  /\ [][\A i \in DOMAIN flows :
          ScanReturns(i) =>
            /\ \E e \in ENDPOINTS :
                 flows[i].pending = {e} /\ flows[i].got = ENDPOINTS \ {e}
            /\ \A r \in (IF flows[i].kind = "Baseline" THEN baseline' ELSE after') :
                 StoresOutcomes(r, Get(flows[i].net))]_vars

(* C27 witness: a result that holds a failed, a timed-out and a completed   *)
(* primary probe and a timed-out DoH probe, each as it came.                *)
C27_Witness ==
  \E r \in baseline :
    /\ r.latency.google204 = Some(Failed)
    /\ r.latency.cloudflare = Some(TimedOut)
    /\ r.latency.cfHome = Some(Fast)
    /\ r.doh = Some(TimedOut)
    /\ flows # <<>> /\ flows[1].pc = "delay"

---------------------------------------------------------------------------
(* Claims about termination (checked under SpecLive) *)

(* C28: every accepted scan terminates: a session that is scanning          *)
(* eventually is not, whatever its probes return, and in the step that      *)
(* leaves scanning the progress interval has been cleared.                  *)
C28_ScanTerminates ==
  /\ (stage = "scanning") ~> (stage # "scanning")
  /\ [][(stage = "scanning" /\ stage' # "scanning") => timerRef' = Null]_vars

(* C28 witness: a scan in which every probe failed has finished, the        *)
(* interval cleared.                                                        *)
C28_Witness ==
  /\ stage = "done"
  /\ timerRef = Null
  /\ \E r \in baseline : Probed(r) /\ CompletedMs(r) = {}

---------------------------------------------------------------------------
(* Claims about the severity of the diagnosis (checked under SpecScan) *)

(* C29: the diagnosis is red exactly when the device is offline; online it  *)
(* is amber or green for every latency, DNS and captive verdict and with    *)
(* probing on or off, also for dns.ok false together with bestMs >= 900.    *)
C29_RedIffOffline ==
  /\ health.level = "red" <=> ~online
  /\ online => health.level \in {"amber", "green"}
  /\ \A ext \in BOOLEAN, dnsOk \in BOOLEAN, captiveLikely \in BOOLEAN,
        ms \in TierSamples :
       /\ classifyHealth(TRUE, ext, ms, dnsOk, captiveLikely).level
            \in {"amber", "green"}
       /\ classifyHealth(FALSE, ext, ms, dnsOk, captiveLikely).level = "red"

(* C29 witness: online, probing on, the scan found dns.ok false, bestMs     *)
(* >= 900 and no captive portal, and the diagnosis is amber.                *)
C29_Witness ==
  \E r \in latestResult :
    /\ online /\ externalChecksEnabled
    /\ r.dns.ok = Some(FALSE)
    /\ r.captive.suspected = Some(FALSE)
    /\ Best(r) >= SevereMs
    /\ health.level = "amber"

---------------------------------------------------------------------------
(* Claims about the DoH probe (checked under SpecScan) *)

(* The diagnosis the component derives when r is the latest result. *)
HealthOfResult(r) ==
  classifyHealth(online, externalChecksEnabled,
                 IF r.latency.bestMs # Null THEN Best(r) ELSE MissingLatencyMs,
                 IF r.dns.ok # Null THEN Get(r.dns.ok) ELSE TRUE,
                 IF r.captive.suspected # Null THEN Get(r.captive.suspected)
                 ELSE FALSE)

(* The result of the scan of flow f had its DoH probe returned d instead. *)
WithDoh(f, d) ==
  runOneScan(f.kind, Get(f.onl), f.ext,
             [Get(f.net) EXCEPT !["dohCloudflare"] = d])

(* C30: the outcome of the DoH probe influences no verdict: the scan that   *)
(* returns and the same scan with any other DoH outcome agree on bestMs,    *)
(* worstMs, dns.ok and captive.suspected, on the health diagnosis and on    *)
(* the suggestion; they differ at most in the stored DoH outcome and in the *)
(* DNS note.                                                                *)
C30_DohInfluencesNoVerdict ==
  [][\A i \in DOMAIN flows :
       ScanReturns(i) =>
         \A d \in DohOutcomes, r \in baseline' :
           LET alt == WithDoh(flows[i], d)
           IN /\ r.latency.bestMs = alt.latency.bestMs
              /\ r.latency.worstMs = alt.latency.worstMs
              /\ r.dns.ok = alt.dns.ok
              /\ r.captive.suspected = alt.captive.suspected
              /\ HealthOfResult(r) = HealthOfResult(alt)
              /\ scoreDiagnosis(externalChecksEnabled, Some(r), Null)
                   = scoreDiagnosis(externalChecksEnabled, Some(alt), Null)
              /\ [r EXCEPT !.doh = alt.doh, !.dns.note = alt.dns.note] = alt]_vars

(* C30 witness: a scan whose DoH probe timed out while every other probe    *)
(* completed: dns.ok true, the note inconclusive, the diagnosis Healthy.    *)
C30_Witness ==
  \E r \in baseline :
    /\ online
    /\ r.doh = Some(TimedOut)
    /\ r.dns.ok = Some(TRUE)
    /\ r.dns.note = "inconclusive"
    /\ CompletedMs(r) # {}
    /\ health.title = "Healthy"

=============================================================================
